---- MODULE Spec2Model ----
(***************************************************************************)
(* A model of fhirkit's ValueSet (src/fhirkit/ValueSet.py): the compose /  *)
(* expansion pair of one value set object, the reads __len__, __iter__ and *)
(* __contains__, and the writes init_expansion, append and extend, for the *)
(* base class ValueSet and for SimpleValueSet.                             *)
(*                                                                         *)
(* Python's None is the empty tuple and a present value v is <<v>>, so an  *)
(* Optional field is a sequence of length 0 or 1.  An operation's outcome  *)
(* is a record holding the exception it raised ("" when it returned) and   *)
(* the value it returned.  The spec's error names are the Python           *)
(* exceptions of the code: ExpansionNotInitialized is the AssertionError   *)
(* of append/extend, EmptyBatch the ValueError of the unpacking in extend, *)
(* ExpansionInvariantViolated the AssertionError of _expand,               *)
(* ExpansionUnsupported the NotImplementedError of ValueSet.expand and     *)
(* RedundantExpansionWarning the UserWarning of SimpleValueSet.expand.     *)
(***************************************************************************)
EXTENDS Integers, Sequences, FiniteSets, TLC

VARIABLES variant, args, compose, expansion, now, call

vars == <<variant, args, compose, expansion, now, call>>

\* The number of calls made on the value set after its construction.
MaxCalls == 2

None == <<>>

Some(v) == <<v>>

----------------------------------------------------------------------------
\* Codings: (system, code, display) records, VSCodingWithDesignation.

Coding(s, c, d) == [system |-> s, code |-> c, display |-> d]

cA == Coding("http://x", "A", "d1")

\* The same (system, code) as cA under another display.
cA2 == Coding("http://x", "A", "d2")

cB == Coding("http://x", "B", "d1")

\* The same code as cA in another system.
cY == Coding("http://y", "A", "d1")

Codings == {cA, cA2, cB, cY}

\* Coding.__eq__: two codings are equal when system and code agree.
CodingEq(a, b) == a.system = b.system /\ a.code = b.code

\* The concept lists a SimpleValueSet is constructed from.
ArgLists == {<<>>, <<cA>>, <<cA, cB>>, <<cY, cA>>, <<cA, cA2>>}

\* The batches handed to extend.
Batches == {<<>>, <<cB>>, <<cA, cY>>, <<cY, cB>>}

Variants == {"ValueSet", "SimpleValueSet"}

----------------------------------------------------------------------------
\* The data model.

\* pydantic's coercion of a coding to a VSConcept keeps code and display.
VSConcept(c) == [code |-> c.code, display |-> c.display]

VSConcepts(codes) == [i \in 1..Len(codes) |-> VSConcept(codes[i])]

VSInclude(system, codes) == [system |-> system, concept |-> VSConcepts(codes)]

VSCompose(include, exclude) == [include |-> include, exclude |-> exclude]

\* VSExpansion(...): timestamp defaults to datetime.now.
VSExpansion(total, contains, t) ==
    [total |-> total, contains |-> contains, timestamp |-> t]

\* The compose keyword a value set is constructed with.
ComposeInputs ==
    { None,
      Some(VSCompose(<<>>, <<>>)),
      Some(VSCompose(<<VSInclude("http://x", <<cA>>)>>,
                     <<VSInclude("http://x", <<cB>>)>>)) }

\* The expansion keyword a value set is constructed with.
ExpansionInputs ==
    { None,
      Some(VSExpansion(None, <<>>, 0)),
      Some(VSExpansion(Some(0), <<>>, 0)) }

has_expanded(e) == e # None

----------------------------------------------------------------------------
\* Outcomes.

\* An outcome: the exception raised ("" when the call returned), the type of
\* the value returned and the value, in the field of its type.
Outcome(x, r, n, b, cs) == [exc |-> x, ret |-> r, n |-> n, b |-> b, cs |-> cs]

ReturnedNone == Outcome("", "None", 0, FALSE, <<>>)

ReturnedInt(n) == Outcome("", "int", n, FALSE, <<>>)

ReturnedBool(b) == Outcome("", "bool", 0, b, <<>>)

ReturnedSeq(cs) == Outcome("", "list", 0, FALSE, cs)

Raised(x) == Outcome(x, "", 0, FALSE, <<>>)

\* ValueSet._expand: asserts that the expansion exists; calls nothing.
_expand(e) == IF has_expanded(e) THEN "" ELSE "AssertionError"

\* The number of expand() invocations _expand makes.
_expandCalls(e) == 0

\* `self.expansion.total or len(self.expansion.contains)`
TotalOrLen(x) ==
    IF x.total # None /\ x.total[1] # 0 THEN x.total[1] ELSE Len(x.contains)

\* __len__ reporting an absent expansion as empty.
__len__absent_is_zero(e) ==
    IF has_expanded(e) THEN ReturnedInt(TotalOrLen(e[1])) ELSE ReturnedInt(0)

\* ValueSet.__len__
__len__(e) ==
    IF has_expanded(e) THEN ReturnedInt(TotalOrLen(e[1]))
    ELSE IF _expand(e) # "" THEN Raised(_expand(e))
    ELSE Raised("AssertionError")

\* ValueSet.__iter__, run to exhaustion: the sequence of codings it yields.
__iter__(e) ==
    IF has_expanded(e) THEN ReturnedSeq(e[1].contains)
    ELSE IF _expand(e) # "" THEN Raised(_expand(e))
    ELSE Raised("AttributeError")

----------------------------------------------------------------------------
\* Membership.  An item is a Coding, a CodeableConcept (a list of codings)
\* or a value of any other type.

CodingItem(c) == [kind |-> "Coding", coding |-> <<c>>]

CodeableConcept(cs) == [kind |-> "CodeableConcept", coding |-> cs]

OtherItem == [kind |-> "other", coding |-> <<>>]

CodeableConcepts == {CodeableConcept(<<>>), CodeableConcept(<<cY>>),
                     CodeableConcept(<<cB, cA2>>)}

Items == {CodingItem(c) : c \in Codings} \cup CodeableConcepts \cup {OtherItem}

\* any(...) over the outcomes rs, evaluated left to right: the first outcome
\* that raises or is true ends it.
AnyOf(rs) ==
    LET stop == {i \in 1..Len(rs) : rs[i].exc # "" \/ rs[i].b}
    IN  IF stop = {} THEN ReturnedBool(FALSE)
        ELSE rs[CHOOSE i \in stop : \A j \in stop : i <= j]

\* AnyEqual with all(...) in the place of any(...).
AllEqual(e, code) ==
    LET it == __iter__(e)
    IN  IF it.exc # "" THEN Raised(it.exc)
        ELSE ReturnedBool(\A i \in 1..Len(it.cs) : CodingEq(it.cs[i], code))

\* `any(c == code for c in self)`
AnyEqual(e, code) ==
    LET it == __iter__(e)
    IN  IF it.exc # "" THEN Raised(it.exc)
        ELSE AnyOf([i \in 1..Len(it.cs) |->
                        ReturnedBool(CodingEq(it.cs[i], code))])

\* validate_code testing the first coding of a CodeableConcept only.
SimpleValueSet_validate_code_first(e, item) ==
    IF item.kind = "CodeableConcept"
    THEN IF item.coding = <<>> THEN ReturnedBool(FALSE)
         ELSE AnyEqual(e, item.coding[1])
    ELSE IF item.kind = "Coding" THEN AnyEqual(e, item.coding[1])
    ELSE ReturnedBool(FALSE)

\* SimpleValueSet.validate_code; `c in self` for a coding c of a
\* CodeableConcept passes the isinstance test of __contains__ and comes
\* back to the Coding branch.
SimpleValueSet_validate_code(e, item) ==
    IF item.kind = "CodeableConcept"
    THEN AnyOf([i \in 1..Len(item.coding) |-> AnyEqual(e, item.coding[i])])
    ELSE IF item.kind = "Coding" THEN AnyEqual(e, item.coding[1])
    ELSE ReturnedBool(FALSE)

\* validate_code of the variant v: abstract in ValueSet.
validate_code(v, e, item) ==
    IF v = "SimpleValueSet" THEN SimpleValueSet_validate_code(e, item)
    ELSE Raised("NotImplementedError")

\* __contains__ without the isinstance test.
__contains__unchecked(v, e, item) == validate_code(v, e, item)

\* ValueSet.__contains__
__contains__(v, e, item) ==
    IF item.kind \notin {"Coding", "CodeableConcept"} THEN ReturnedBool(FALSE)
    ELSE validate_code(v, e, item)

\* expand() of the variant v: both raise and change nothing.
expand(v) ==
    IF v = "SimpleValueSet" THEN Raised("UserWarning")
    ELSE Raised("NotImplementedError")

----------------------------------------------------------------------------
\* Writes.  A write maps the object (compose, expansion) to the object it
\* leaves and its outcome; t is the clock when the call runs.

Obj(c, e) == [compose |-> c, expansion |-> e]

Left(c, e, out) == [compose |-> c, expansion |-> e, out |-> out]

\* ValueSet.init_expansion
init_expansion(t) == Some(VSExpansion(None, <<>>, t))

\* IncludeAppended putting the rule in front of the include list.
IncludePrepended(c, rule) ==
    Some([c[1] EXCEPT !.include = <<rule>> \o @])

\* `self.compose.include.append(rule)`
IncludeAppended(c, rule) ==
    Some([c[1] EXCEPT !.include = Append(@, rule)])

\* `self.expansion.contains.extend(codes)`
ContainsExtended(e, codes) ==
    Some([e[1] EXCEPT !.contains = @ \o codes])

\* The condition under which append creates the expansion.
AppendInits(e, init) == ~has_expanded(e) /\ init

\* ValueSet.append
append(o, code, ec, init, t) ==
    IF ec /\ o.compose = None
    THEN Left(o.compose, o.expansion, Raised("AttributeError"))
    ELSE
      LET c1 == IF ec
                THEN IncludeAppended(o.compose, VSInclude(code.system, <<code>>))
                ELSE o.compose
          e1 == IF AppendInits(o.expansion, init)
                THEN init_expansion(t) ELSE o.expansion
      IN  IF e1 = None THEN Left(c1, e1, Raised("AssertionError"))
          ELSE Left(c1, ContainsExtended(e1, <<code>>), ReturnedNone)

\* extend unpacking the first concept before it tests extend_compose.
extend_unpacking_first(o, codes, ec, init, t) ==
    IF codes = <<>>
    THEN Left(o.compose, o.expansion, Raised("ValueError"))
    ELSE IF ec /\ o.compose = None
    THEN Left(o.compose, o.expansion, Raised("AttributeError"))
    ELSE
      LET c1 == IF ec
                THEN IncludeAppended(o.compose, VSInclude(codes[1].system, codes))
                ELSE o.compose
          e1 == IF has_expanded(o.expansion) /\ init
                THEN init_expansion(t) ELSE o.expansion
      IN  IF e1 = None THEN Left(c1, e1, Raised("AssertionError"))
          ELSE Left(c1, ContainsExtended(e1, codes), ReturnedNone)

\* The condition under which extend creates the expansion.
ExtendInits(e, init) == has_expanded(e) /\ init

\* ValueSet.extend
extend(o, codes, ec, init, t) ==
    IF ec /\ codes = <<>>
    THEN Left(o.compose, o.expansion, Raised("ValueError"))
    ELSE IF ec /\ o.compose = None
    THEN Left(o.compose, o.expansion, Raised("AttributeError"))
    ELSE
      LET c1 == IF ec
                THEN IncludeAppended(o.compose, VSInclude(codes[1].system, codes))
                ELSE o.compose
          e1 == IF ExtendInits(o.expansion, init)
                THEN init_expansion(t) ELSE o.expansion
      IN  IF e1 = None THEN Left(c1, e1, Raised("AssertionError"))
          ELSE Left(c1, ContainsExtended(e1, codes), ReturnedNone)

----------------------------------------------------------------------------
\* The state machine: one value set object and the calls made on it.

\* The record of the last call: its name, its arguments, the object before
\* it, its outcome and the number of expand() invocations it made.
Call(op, item, codes, ec, init, out, n) ==
    [op |-> op, item |-> item, codes |-> codes, ec |-> ec, init |-> init,
     pre |-> Obj(compose, expansion), out |-> out, expands |-> n]

\* `c.dict()` parsed back into a VSCodingWithDesignation by VSExpansion: the
\* fields are copied one by one.
CodingFromDict(c) == Coding(c.system, c.code, c.display)

\* SimpleValueSetOf passing the total and leaving `contains` at its default.
SimpleValueSetOf_total_only(cs) == Some(VSExpansion(Some(Len(cs)), <<>>, 0))

\* SimpleValueSet.__init__ with a non-empty concept list.
SimpleValueSetOf(cs) ==
    Some(VSExpansion(Some(Len(cs)),
                     [i \in 1..Len(cs) |-> CodingFromDict(cs[i])], 0))

Init ==
    /\ variant \in Variants
    /\ args \in (IF variant = "SimpleValueSet" THEN ArgLists ELSE {<<>>})
    /\ compose \in ComposeInputs
    /\ expansion \in (IF Len(args) > 0 THEN {SimpleValueSetOf(args)}
                      ELSE ExpansionInputs)
    /\ now = 0
    /\ call = [op |-> "__init__", item |-> OtherItem, codes |-> args,
               ec |-> FALSE, init |-> FALSE, pre |-> Obj(None, None),
               out |-> ReturnedNone, expands |-> 0]

Tick == now < MaxCalls /\ now' = now + 1

AppendCall ==
    \E code \in Codings, ec \in BOOLEAN, init \in BOOLEAN :
      LET r == append(Obj(compose, expansion), code, ec, init, now + 1)
      IN  /\ Tick
          /\ compose' = r.compose
          /\ expansion' = r.expansion
          /\ call' = Call("append", OtherItem, <<code>>, ec, init, r.out, 0)
          /\ UNCHANGED <<variant, args>>

ExtendCall ==
    \E codes \in Batches, ec \in BOOLEAN, init \in BOOLEAN :
      LET r == extend(Obj(compose, expansion), codes, ec, init, now + 1)
      IN  /\ Tick
          /\ compose' = r.compose
          /\ expansion' = r.expansion
          /\ call' = Call("extend", OtherItem, codes, ec, init, r.out, 0)
          /\ UNCHANGED <<variant, args>>

\* InitExpansionCall keeping an expansion that already exists.
InitExpansionCall_if_absent ==
    /\ Tick
    /\ expansion' = IF has_expanded(expansion) THEN expansion
                    ELSE init_expansion(now + 1)
    /\ call' = Call("init_expansion", OtherItem, <<>>, FALSE, FALSE,
                    ReturnedNone, 0)
    /\ UNCHANGED <<variant, args, compose>>

InitExpansionCall ==
    /\ Tick
    /\ expansion' = init_expansion(now + 1)
    /\ call' = Call("init_expansion", OtherItem, <<>>, FALSE, FALSE,
                    ReturnedNone, 0)
    /\ UNCHANGED <<variant, args, compose>>

\* ExpandCall computing a fresh expansion whenever it is called.
ExpandCall_recomputing ==
    /\ Tick
    /\ expansion' = init_expansion(now + 1)
    /\ call' = Call("expand", OtherItem, <<>>, FALSE, FALSE, expand(variant), 1)
    /\ UNCHANGED <<variant, args, compose>>

ExpandCall ==
    /\ Tick
    /\ call' = Call("expand", OtherItem, <<>>, FALSE, FALSE, expand(variant), 1)
    /\ UNCHANGED <<variant, args, compose, expansion>>

LenCall ==
    /\ Tick
    /\ call' = Call("len", OtherItem, <<>>, FALSE, FALSE, __len__(expansion),
                    IF has_expanded(expansion) THEN 0 ELSE _expandCalls(expansion))
    /\ UNCHANGED <<variant, args, compose, expansion>>

IterCall ==
    /\ Tick
    /\ call' = Call("iter", OtherItem, <<>>, FALSE, FALSE, __iter__(expansion),
                    IF has_expanded(expansion) THEN 0 ELSE _expandCalls(expansion))
    /\ UNCHANGED <<variant, args, compose, expansion>>

ContainsCall ==
    \E item \in Items :
      /\ Tick
      /\ call' = Call("contains", item, <<>>, FALSE, FALSE,
                      __contains__(variant, expansion, item), 0)
      /\ UNCHANGED <<variant, args, compose, expansion>>

Next ==
    \/ AppendCall
    \/ ExtendCall
    \/ InitExpansionCall
    \/ ExpandCall
    \/ LenCall
    \/ IterCall
    \/ ContainsCall

Spec == Init /\ [][Next]_vars

----------------------------------------------------------------------------
\* Vocabulary of the properties.

Enumerated == variant = "SimpleValueSet"

Range(s) == {s[i] : i \in 1..Len(s)}

\* No two concepts of cs share (system, code).
DupFree(cs) ==
    \A i, j \in 1..Len(cs) :
        i # j => ~(cs[i].system = cs[j].system /\ cs[i].code = cs[j].code)

\* Some concept of cs has the (system, code) of c.
HasSystemCode(cs, c) ==
    \E i \in 1..Len(cs) : cs[i].system = c.system /\ cs[i].code = c.code

\* s can be obtained from t by deleting elements.
RECURSIVE IsSubseq(_, _)
IsSubseq(s, t) ==
    IF s = <<>> THEN TRUE
    ELSE IF t = <<>> THEN FALSE
    ELSE IF Head(s) = Head(t) THEN IsSubseq(Tail(s), Tail(t))
    ELSE IsSubseq(s, Tail(t))

\* The last call was the first one made on the freshly constructed object.
FirstCall(op) == now = 1 /\ call.op = op

Write == call.op \in {"append", "extend"}

Read == call.op \in {"len", "iter"}

\* The concepts of an expansion; none when it is absent.
ConceptsOf(e) == IF has_expanded(e) THEN e[1].contains ELSE <<>>

----------------------------------------------------------------------------
\* C1 (as stated): an enumerated value set built from a duplicate-free
\* concept list C, the empty list included, has length |C| and every
\* concept of C as a member.
C1_LenAndMembersAnyList ==
    Enumerated /\ DupFree(args) =>
        /\ FirstCall("len") => call.out = ReturnedInt(Len(args))
        /\ FirstCall("contains") /\ call.item.kind = "Coding"
             /\ call.item.coding[1] \in Range(args)
           => call.out = ReturnedBool(TRUE)

\* C1 (amended): an enumerated value set built from a NON-EMPTY
\* duplicate-free concept list C has length |C| and every concept of C as a
\* member.
C1_LenAndMembersNonEmptyList ==
    Enumerated /\ DupFree(args) /\ Len(args) > 0 =>
        /\ FirstCall("len") => call.out = ReturnedInt(Len(args))
        /\ FirstCall("contains") /\ call.item.kind = "Coding"
             /\ call.item.coding[1] \in Range(args)
           => call.out = ReturnedBool(TRUE)

C1_Witness ==
    /\ Enumerated /\ args = <<cY, cA>>
    /\ \/ FirstCall("len") /\ call.out = ReturnedInt(2)
       \/ FirstCall("contains") /\ call.item = CodingItem(cA)
            /\ call.out = ReturnedBool(TRUE)

\* C2: on an enumerated value set a coding is a member exactly when the
\* expansion holds a concept with its (system, code), whatever the displays.
C2_MemberIffSystemCode ==
    Enumerated /\ call.op = "contains" /\ call.item.kind = "Coding" =>
        ( call.out = ReturnedBool(TRUE)
          <=> HasSystemCode(ConceptsOf(expansion), call.item.coding[1]) )

\* cA2 is a member through cA, which was added after construction and
\* carries another display.
C2_Witness ==
    /\ Enumerated /\ call.op = "contains" /\ call.item = CodingItem(cA2)
    /\ has_expanded(expansion)
    /\ cA \in Range(expansion[1].contains)
    /\ cA2 \notin Range(expansion[1].contains)
    /\ cA \notin Range(args)
    /\ call.out = ReturnedBool(TRUE)

\* C3: append(c) with the default flags on an enumerated value set built
\* from a non-empty list succeeds, raises the length by one and makes c a
\* member.  (Stated for value sets that hold a composition: without one the
\* default append stops on `self.compose.include` before it reaches the
\* expansion.)
C3_AppendGrowsLenByOne ==
    /\ Enumerated /\ Len(args) > 0 /\ call.pre.compose # None
    /\ call.op = "append" /\ call.ec /\ call.init
    =>
        /\ call.out.exc = ""
        /\ __len__(expansion) =
             ReturnedInt(__len__(call.pre.expansion).n + 1)
        /\ __contains__(variant, expansion, CodingItem(call.codes[1]))
             = ReturnedBool(TRUE)

\* C4: append and extend on a value set that has an expansion keep every
\* concept it held, in order, and add only supplied concepts.  (Stated for
\* calls that supply at least one concept.)
C4_WritesKeepExpansion ==
    Write /\ has_expanded(call.pre.expansion) /\ call.codes # <<>> =>
        /\ has_expanded(expansion)
        /\ IsSubseq(call.pre.expansion[1].contains, expansion[1].contains)
        /\ Range(expansion[1].contains) \subseteq
             Range(call.pre.expansion[1].contains) \cup Range(call.codes)
        /\ Len(expansion[1].contains) <=
             Len(call.pre.expansion[1].contains) + Len(call.codes)

\* C5: extend([c1, c2]) with init_expansion_if_none on a value set with a
\* composition and an absent or empty expansion succeeds and leaves the
\* expansion c1, c2, of length 2, with both as members.
C5_ExtendPairFromEmpty ==
    /\ call.op = "extend" /\ Len(call.codes) = 2 /\ call.init
    /\ call.pre.compose # None
    /\ ConceptsOf(call.pre.expansion) = <<>>
    => /\ call.out.exc = ""
       /\ ConceptsOf(expansion) = call.codes
       /\ __len__(expansion) = ReturnedInt(2)
       /\ Enumerated =>
            \A i \in 1..2 :
              __contains__(variant, expansion, CodingItem(call.codes[i]))
                = ReturnedBool(TRUE)

\* C6 (as stated): extend with an empty sequence fails with EmptyBatch
\* whatever the flags and the state.
C6_EmptyExtendAlwaysFails ==
    call.op = "extend" /\ call.codes = <<>> => call.out.exc = "ValueError"

\* C6 (amended): extend with an empty sequence fails with EmptyBatch exactly
\* when extend_compose is set, whatever init_expansion_if_none and the
\* state, and then leaves the value set as it was.
C6_EmptyExtendFailsIffExtendCompose ==
    call.op = "extend" /\ call.codes = <<>> =>
        /\ call.out.exc = "ValueError" <=> call.ec
        /\ call.ec => Obj(compose, expansion) = call.pre

C6_Witness ==
    /\ call.op = "extend" /\ call.codes = <<>> /\ call.ec
    /\ has_expanded(call.pre.expansion) /\ call.pre.compose # None
    /\ call.out.exc = "ValueError"

\* C7: a read of a value set without expansion invokes expand() first.
C7_ReadExpandsFirst ==
    Read /\ call.pre.expansion = None => call.expands >= 1

\* C8: iterating an expanded value set yields the same sequence on a second
\* iteration, leaves the expansion alone, and yields len(V) concepts.
C8_IterationMatchesLen ==
    call.op = "iter" /\ has_expanded(call.pre.expansion) =>
        /\ call.out.exc = ""
        /\ expansion = call.pre.expansion
        /\ __iter__(expansion) = call.out
        /\ __len__(expansion) = ReturnedInt(Len(call.out.cs))

\* C9: append and extend fail with ExpansionNotInitialized exactly when the
\* expansion is absent and init_expansion_if_none is false; with the flag
\* set they create the expansion and succeed.  (Calls that fail earlier, on
\* an absent composition or an empty batch, are left out.)
C9_NotInitializedIff ==
    Write /\ call.pre.compose # None /\ call.codes # <<>> =>
        /\ call.out.exc = "AssertionError"
             <=> (call.pre.expansion = None /\ ~call.init)
        /\ call.pre.expansion = None /\ call.init =>
             call.out.exc = "" /\ ConceptsOf(expansion) = call.codes

\* C10 (as stated): a value set with neither composition nor expansion has
\* length 0 and no coding as a member, and neither query fails.
C10_DegenerateIsEmpty ==
    call.pre = Obj(None, None) =>
        /\ call.op = "len" => call.out = ReturnedInt(0)
        /\ call.op = "contains" => call.out = ReturnedBool(FALSE)

\* C10 (amended): a value set with neither composition nor expansion can be
\* constructed, but its length query fails and so does the membership test
\* of a coding; both leave it without composition and expansion.
C10_DegenerateQueriesFail ==
    call.pre = Obj(None, None) =>
        /\ call.op = "len" =>
             call.out.exc # "" /\ Obj(compose, expansion) = call.pre
        /\ call.op = "contains" /\ call.item.kind = "Coding" =>
             call.out.exc # "" /\ Obj(compose, expansion) = call.pre

C10_Witness ==
    /\ call.pre = Obj(None, None) /\ Enumerated /\ args = <<>>
    /\ FirstCall("len") /\ call.out = Raised("AssertionError")

\* C11: expand() on an enumerated value set is non-fatal: the call completes
\* and leaves composition and expansion as they were.
C11_ExpandIsAdvisory ==
    Enumerated /\ call.op = "expand" =>
        call.out.exc = "" /\ Obj(compose, expansion) = call.pre

\* C12: expand() on a value set that has an expansion changes neither its
\* timestamp nor its concepts, whatever the variant.
C12_ExpandKeepsExpansion ==
    call.op = "expand" /\ has_expanded(call.pre.expansion) =>
        /\ has_expanded(expansion)
        /\ expansion[1].timestamp = call.pre.expansion[1].timestamp
        /\ expansion[1].contains = call.pre.expansion[1].contains

\* expand() called as the second call, on an expansion that holds concepts
\* and was created before the clock moved.
C12_Witness ==
    /\ call.op = "expand" /\ now = 2
    /\ has_expanded(expansion)
    /\ expansion[1].contains # <<>>
    /\ expansion[1].timestamp < now

\* The systems of the concepts cs.
SystemsOf(cs) == {cs[i].system : i \in 1..Len(cs)}

\* The (code, display) pairs that rule lists.
Listed(rule) == Range(rule.concept)

\* C13: constructing an enumerated value set from C leaves a composition
\* with exactly one include rule per system of C, each rule listing that
\* system's concepts of C.
C13_ConstructionSynthesizesIncludes ==
    Enumerated /\ Len(args) > 0 /\ call.op = "__init__" =>
        /\ compose # None
        /\ Len(compose[1].include) = Cardinality(SystemsOf(args))
        /\ \A s \in SystemsOf(args) :
             \E i \in 1..Len(compose[1].include) :
               /\ compose[1].include[i].system = s
               /\ Listed(compose[1].include[i]) =
                    {VSConcept(c) : c \in {d \in Range(args) : d.system = s}}

\* C14: a CodeableConcept is a member of an enumerated value set exactly when
\* one of its codings is, and one without codings is not a member.
C14_CodeableConceptAnyCoding ==
    Enumerated /\ call.op = "contains" /\ call.item.kind = "CodeableConcept" =>
        /\ call.out = ReturnedBool(TRUE)
             <=> \E i \in 1..Len(call.item.coding) :
                   HasSystemCode(ConceptsOf(expansion), call.item.coding[i])
        /\ call.item.coding = <<>> => call.out = ReturnedBool(FALSE)

\* A member through its second coding, the first one not being in the
\* expansion.
C14_Witness ==
    /\ Enumerated /\ call.op = "contains"
    /\ call.item = CodeableConcept(<<cB, cA2>>)
    /\ ~HasSystemCode(ConceptsOf(expansion), cB)
    /\ HasSystemCode(ConceptsOf(expansion), cA2)
    /\ call.out = ReturnedBool(TRUE)

\* C15: `item in V` for an item that is neither a Coding nor a
\* CodeableConcept is False in every state and for every variant: it does
\* not fail, runs neither validate_code nor expand, and changes nothing.
C15_OtherTypeIsNotMember ==
    call.op = "contains" /\ call.item.kind = "other" =>
        /\ call.out = ReturnedBool(FALSE)
        /\ call.expands = 0
        /\ Obj(compose, expansion) = call.pre

\* On the base class, without expansion: validate_code and _expand would
\* both have raised.
C15_Witness ==
    /\ call.op = "contains" /\ call.item = OtherItem
    /\ variant = "ValueSet" /\ expansion = None
    /\ call.out = ReturnedBool(FALSE)

\* C16: len returns the total whenever the expansion has one, 0 included,
\* and the number of concepts only when it has none.
C16_LenPrefersTotal ==
    call.op = "len" /\ has_expanded(call.pre.expansion) =>
        call.out = ReturnedInt(IF call.pre.expansion[1].total # None
                               THEN call.pre.expansion[1].total[1]
                               ELSE Len(call.pre.expansion[1].contains))

\* The (system, code) pairs the include rules of the composition c list,
\* each concept under the system of its rule.
IncludedPairs(c) ==
    IF c = None THEN {}
    ELSE UNION { { <<c[1].include[i].system, k.code>> :
                     k \in Listed(c[1].include[i]) } :
                 i \in 1..Len(c[1].include) }

\* The (system, code) pairs of the concepts of the expansion e.
ExpandedPairs(e) == { <<k.system, k.code>> : k \in Range(ConceptsOf(e)) }

EmptyCompose == Some(VSCompose(<<>>, <<>>))

\* C17: append and extend with extend_compose, on a value set that starts
\* with an empty composition and an empty or absent expansion, keep the
\* concepts of the include rules equal to the concepts of the expansion.
\* (Stated for the first call, with init_expansion_if_none at its default.)
C17_ComposeMatchesExpansion ==
    /\ now = 1 /\ Write /\ call.ec /\ call.init
    /\ call.pre.compose = EmptyCompose
    /\ ConceptsOf(call.pre.expansion) = <<>>
    => IncludedPairs(compose) = ExpandedPairs(expansion)

\* C18: an append or extend that fails with ExpansionNotInitialized or
\* EmptyBatch leaves composition and expansion as they were.
C18_FailedWriteChangesNothing ==
    Write /\ call.out.exc \in {"AssertionError", "ValueError"} =>
        Obj(compose, expansion) = call.pre

\* C19: a successful append or extend with extend_compose adds one include
\* rule at the end of compose.include, under the system of the (first)
\* concept and listing the supplied concepts in order, and changes no other
\* rule; without extend_compose the composition is unchanged.
C19_OneIncludeRuleAtEnd ==
    Write /\ call.out.exc = "" =>
        IF call.ec
        THEN /\ call.pre.compose # None /\ compose # None
             /\ compose[1].exclude = call.pre.compose[1].exclude
             /\ compose[1].include =
                  call.pre.compose[1].include \o
                  << [ system |-> call.codes[1].system,
                       concept |-> [i \in 1..Len(call.codes) |->
                                      [code |-> call.codes[i].code,
                                       display |-> call.codes[i].display]] ] >>
        ELSE compose = call.pre.compose

\* A batch of two systems added to a composition that held an include and
\* an exclude rule.
C19_Witness ==
    /\ call.op = "extend" /\ call.ec /\ call.out.exc = ""
    /\ call.codes = <<cY, cB>>
    /\ call.pre.compose # None
    /\ call.pre.compose[1].include # <<>>
    /\ call.pre.compose[1].exclude # <<>>
    /\ Len(compose[1].include) = Len(call.pre.compose[1].include) + 1

\* C20: init_expansion leaves an expansion that is present, holds no concept
\* and has no total, whether or not there was one, and leaves the
\* composition alone.
C20_InitExpansionIsFreshAndEmpty ==
    call.op = "init_expansion" =>
        /\ has_expanded(expansion)
        /\ expansion[1].contains = <<>>
        /\ expansion[1].total = None
        /\ compose = call.pre.compose

\* An expansion with concepts and a total was overwritten.
C20_Witness ==
    /\ call.op = "init_expansion"
    /\ has_expanded(call.pre.expansion)
    /\ call.pre.expansion[1].contains # <<>>
    /\ call.pre.expansion[1].total # None
    /\ has_expanded(expansion) /\ expansion[1].contains = <<>>

====
